---- MODULE Spec2Model ----
(***************************************************************************)
(* reparojson: a single-pass streaming JSON validator that repairs comma   *)
(* placement.  The model follows src/src/lib.rs (the recursive-descent     *)
(* walker over a Peekable<Bytes<R>>) and src/src/main.rs (the command-line *)
(* wrapper: open the input, run repair, map the outcome to an exit code,   *)
(* flush the BufWriter).                                                   *)
(*                                                                         *)
(* The call stack of the walker is the variable `stack` (innermost call    *)
(* first); a frame names the function and the point reached in it.  A call *)
(* pushes the callee's frame in front of the caller's continuation; `?`    *)
(* unwinds the whole stack to repair's match.                              *)
(*                                                                         *)
(* The byte source is a stream: the items the reader will yield are fixed  *)
(* by the environment, and become known one at a time as Bytes::next reads *)
(* them.  `input` holds the items known so far.                            *)
(***************************************************************************)
EXTENDS Integers, Sequences, FiniteSets, TLC

(* ------------------------------ bytes --------------------------------- *)
TAB == 9
LF == 10
CR == 13
SP == 32
QUOTE == 34
PLUS == 43
COMMA == 44
MINUS == 45
DOT == 46
SLASH == 47
ZERO == 48
ONE == 49
NINE == 57
COLON == 58
UPPER_A == 65
UPPER_E == 69
UPPER_F == 70
LBRACKET == 91
BACKSLASH == 92
RBRACKET == 93
CHR_a == 97
CHR_b == 98
CHR_e == 101
CHR_f == 102
CHR_l == 108
CHR_n == 110
CHR_r == 114
CHR_s == 115
CHR_t == 116
CHR_u == 117
LBRACE == 123
RBRACE == 125

(* Items of the Bytes iterator: Some(Ok(byte)) is the byte 0..255,         *)
(* Some(Err(e)) is ERR_BASE + e, None is Eof.  NoPeek is the empty         *)
(* lookahead slot of Peekable.                                             *)
Eof == -1
NoPeek == -2
ERR_BASE == 256

IsByte(it) == it \in 0..255
IsErr(it) == it > ERR_BASE

(* lib.rs 625-626: the four whitespace bytes walk_ws accepts. *)
IsWs(c) == c \in {TAB, LF, CR, SP}
(* lib.rs 512-515, 538-541: b'0' ..= b'9'. *)
IsDigit(c) == c \in ZERO..NINE
(* lib.rs 508: b'1' ..= b'9'. *)
IsOneNine(c) == c \in ONE..NINE
(* u8::is_ascii_hexdigit, lib.rs 449. *)
IsHexDigit(c) == c \in (ZERO..NINE) \cup (UPPER_A..UPPER_F) \cup (CHR_a..CHR_f)
(* lib.rs 441: the eight single-character escapes. *)
IsSimpleEscape(c) == c \in {QUOTE, BACKSLASH, SLASH, CHR_b, CHR_f, CHR_n, CHR_r, CHR_t}

(* ------------------------------ bounds -------------------------------- *)
(* The environment may append up to MaxFrag freely chosen items to the     *)
(* fixed beginning of the stream before its fixed ending.                  *)
MaxFrag == 3

(* The least number of nested calls of the walker at which the thread's    *)
(* stack may overflow; with fewer it never does.                           *)
StackLimit == 8

(* The two read failures the reader may report. *)
IoErrs == {ERR_BASE + 1, ERR_BASE + 2}

(* The items the environment chooses from. *)
Alphabet ==
    {LBRACKET, RBRACKET, LBRACE, RBRACE, COMMA, COLON, QUOTE, SP,
     ZERO, ONE, MINUS, BACKSLASH, CHR_u} \cup IoErrs

(* The streams: pre, then up to n items of Alphabet, then suf:            *)
(*   anything;  [0 ...;  [0 ... ];  [0 ... 0];  [0 0 ... 0];               *)
(*   {"":0 ... };  {"":0 ... ":0};  "\u0 ... ";                            *)
(*   n ... ull;  t ... rue;  f ... alse;  1 ... .0e+1;  1. ...;  1E ...;   *)
(*   and the document "<LF>".                                              *)
Contexts ==
    { [pre |-> <<>>, suf |-> <<>>, n |-> MaxFrag],
      [pre |-> <<LBRACKET, ZERO>>, suf |-> <<>>, n |-> MaxFrag],
      [pre |-> <<LBRACKET, ZERO>>, suf |-> <<RBRACKET>>, n |-> MaxFrag],
      [pre |-> <<LBRACKET, ZERO>>, suf |-> <<ZERO, RBRACKET>>, n |-> MaxFrag],
      [pre |-> <<LBRACKET, ZERO, SP, ZERO>>, suf |-> <<ZERO, RBRACKET>>,
       n |-> MaxFrag],
      [pre |-> <<LBRACE, QUOTE, QUOTE, COLON, ZERO>>, suf |-> <<RBRACE>>,
       n |-> MaxFrag],
      [pre |-> <<LBRACE, QUOTE, QUOTE, COLON, ZERO>>,
       suf |-> <<QUOTE, COLON, ZERO, RBRACE>>, n |-> MaxFrag],
      [pre |-> <<QUOTE, BACKSLASH, CHR_u, ZERO>>, suf |-> <<QUOTE>>,
       n |-> MaxFrag],
      [pre |-> <<CHR_n>>, suf |-> <<CHR_u, CHR_l, CHR_l>>, n |-> MaxFrag],
      [pre |-> <<CHR_t>>, suf |-> <<CHR_r, CHR_u, CHR_e>>, n |-> MaxFrag],
      [pre |-> <<CHR_f>>, suf |-> <<CHR_a, CHR_l, CHR_s, CHR_e>>, n |-> MaxFrag],
      [pre |-> <<ONE>>, suf |-> <<DOT, ZERO, CHR_e, PLUS, ONE>>, n |-> MaxFrag],
      [pre |-> <<ONE, DOT>>, suf |-> <<>>, n |-> MaxFrag],
      [pre |-> <<ONE, UPPER_E>>, suf |-> <<>>, n |-> MaxFrag],
      [pre |-> <<QUOTE, LF, QUOTE>>, suf |-> <<>>, n |-> 0] }

VARIABLES
    input,      \* the items of the stream known so far
    pos,        \* how many of them Bytes::next has yielded
    more,       \* how many items the environment may still append
    suf,        \* the fixed ending of the stream, not yet attached
    peeked,     \* Peekable's lookahead slot
    out,        \* the bytes written to the sink w
    ws,         \* the pending-whitespace Vec of walk_elements/walk_members
    repaired,   \* Parser.repaired
    stack,      \* the walker's call stack, innermost first
    result,     \* the RepairResult, "none" while the call runs
    ioerr,      \* the io::Error carried by RepairErr::IoErr, 0 if none
    quiet,      \* Config.quiet
    openFails,  \* FILE is given and File::open fails
    mpc,        \* main's position: "open", "walk", "exit", "done"
    exit,       \* the process exit code, -1 while running
    flush,      \* the final writer.flush(): "none", "ok", "failed"; "unwind"
                \* after a panic, "lost" when the process was aborted
    run,        \* 1: the call on the stream; 2: the call on its output
    out1,       \* the output of run 1, once run 2 has started
    res1        \* the result of run 1, once run 2 has started

srcv == <<input, pos, more, suf>>
cfgv == <<quiet, openFails>>
runv == <<run, out1, res1>>
vars == <<input, pos, more, suf, peeked, out, ws, repaired, stack, result,
          ioerr, quiet, openFails, mpc, exit, flush, run, out1, res1>>

(* ------------------------- source and lookahead ----------------------- *)
(* Bytes::next on the underlying reader yields `it`. *)
SrcYield(it) ==
    IF pos < Len(input)
    THEN /\ it = input[pos + 1]
         /\ pos' = pos + 1
         /\ UNCHANGED <<input, more, suf>>
    ELSE \/ /\ more > 0
            /\ it \in Alphabet
            /\ input' = Append(input, it)
            /\ pos' = pos + 1
            /\ more' = more - 1
            /\ UNCHANGED suf
         \/ /\ suf # <<>>
            /\ it = Head(suf)
            /\ input' = input \o suf
            /\ pos' = pos + 1
            /\ more' = 0
            /\ suf' = <<>>
         \/ /\ suf = <<>>
            /\ it = Eof
            /\ more' = 0
            /\ UNCHANGED <<input, pos, suf>>

(* Peekable::peek returns `it` and keeps it in the slot. *)
Peek(it) ==
    /\ IF peeked # NoPeek THEN it = peeked /\ UNCHANGED srcv ELSE SrcYield(it)
    /\ peeked' = it

(* Peekable::next returns `it` (the slot's item if there is one) and       *)
(* leaves the slot empty.  Also a peek followed by next in one step.       *)
NextItem(it) ==
    /\ IF peeked # NoPeek THEN it = peeked /\ UNCHANGED srcv ELSE SrcYield(it)
    /\ peeked' = NoPeek

(* The items the next peek or next may return in this state. *)
Cand ==
    IF peeked # NoPeek THEN {peeked}
    ELSE IF pos < Len(input) THEN {input[pos + 1]}
    ELSE (IF more > 0 THEN Alphabet ELSE {})
         \cup (IF suf # <<>> THEN {Head(suf)} ELSE {Eof})

(* ------------------------------ frames -------------------------------- *)
F(fn, pc) == [fn |-> fn, pc |-> pc]
FWs(w) == [fn |-> "walk_ws", pc |-> "loop", w |-> w]
FLit(rest, lit) == [fn |-> "walk_value", pc |-> "literal", rest |-> rest, lit |-> lit]
FEsc(u) == [fn |-> "walk_escape", pc |-> "hex", u |-> u]
FDigits(h) == [fn |-> "walk_digits", pc |-> "loop", has_digit |-> h]

Walking == mpc = "walk" /\ result = "none" /\ stack # <<>>
Top == Head(stack)
At(fn, pc) == Walking /\ Top.fn = fn /\ Top.pc = pc

(* A frame under the top one that stands for a call not yet made: the     *)
(* calls a function makes one after the other are listed when it starts.   *)
Queued(f) == f.pc = "start" \/ f.fn \in {"walk_ws", "walk_digits"}

(* The calls of the walker that are on the thread's stack: the function    *)
(* that runs and every caller that waits for its callee, a caller with     *)
(* nothing left to do but return (pc "ret") included.                      *)
Depth(stk) ==
    IF stk = <<>> THEN 0
    ELSE 1 + Cardinality({i \in 2..Len(stk) : ~Queued(stk[i])})

(* `self.walk_x(..)` as the last expression of a function, or followed by  *)
(* `?; Ok(())` alone: when the callee returns Ok, so does the caller.      *)
RECURSIVE Unwind(_)
Unwind(stk) ==
    IF stk # <<>> /\ Head(stk).pc = "ret" THEN Unwind(Tail(stk)) ELSE stk

(* The step goes on: the stack, the sink, the buffer and the flag after it. *)
Go(stk, o, w, rep) ==
    /\ stack' = Unwind(stk)
    /\ out' = o
    /\ ws' = w
    /\ repaired' = rep
    /\ UNCHANGED <<result, ioerr, mpc, exit, flush, cfgv, runv>>

(* return Ok(()) to the caller *)
Ret == Go(Tail(stack), out, ws, repaired)
(* continue in this function at frame f *)
Goto(f) == Go(<<f>> \o Tail(stack), out, ws, repaired)
(* call fs in order, then continue with the caller's continuation k *)
Call(fs) == Go(fs \o Tail(stack), out, ws, repaired)

(* An Err propagates through every `?` up to repair's match (lib.rs 50). *)
Throw(r, e) ==
    /\ result' = r
    /\ ioerr' = e
    /\ stack' = <<>>
    /\ mpc' = "exit"
    /\ UNCHANGED <<out, ws, repaired, exit, flush, cfgv, runv>>

ThrowEof == Throw("UnexpectedEof", 0)
ThrowInvalid == Throw("InvalidValue", 0)
ThrowIo(it) == Throw("IoErr", it - ERR_BASE)

(* The io::Error of a write_all that the sink refuses. *)
ERR_WRITE == 4

(* `w.write_all(..)?` fails: the Err goes through From<io::Error> (lib.rs   *)
(* 16-20) up to repair's match.  The sink holds o, the flag is rep.        *)
ThrowWrite(o, rep) ==
    /\ result' = "IoErr"
    /\ ioerr' = ERR_WRITE
    /\ stack' = <<>>
    /\ mpc' = "exit"
    /\ out' = o
    /\ repaired' = rep
    /\ UNCHANGED <<ws, exit, flush, cfgv, runv>>

(* write_all(bytes) fails: Write::write_all loops over write(), so the     *)
(* sink has taken any k bytes short of all of them.  write_all of no bytes *)
(* does not call the sink.                                                 *)
FailAt(bytes, rep) ==
    \E k \in 0..(Len(bytes) - 1) : ThrowWrite(out \o SubSeq(bytes, 1, k), rep)

(* The thread's stack overflows: the process is aborted (SIGABRT, status   *)
(* 134); no RepairResult, no exit code of main, the BufWriter is dropped   *)
(* unflushed.  The sink has taken o, the flag is rep.                      *)
AbortWith(o, rep) ==
    /\ result' = "abort"
    /\ stack' = <<>>
    /\ mpc' = "done"
    /\ exit' = 134
    /\ flush' = "lost"
    /\ out' = o
    /\ repaired' = rep
    /\ UNCHANGED <<ws, ioerr, cfgv, runv>>

(* A call may overflow the stack: which call does depends on the build, on *)
(* the size of the stack and on what the reader and the sink do under the  *)
(* walker (a refill, a flush).  With StackLimit calls of the walker or     *)
(* more on the stack, any step may be the one.                             *)
CanOverflow == Depth(stack) >= StackLimit

(* w.write_all(bytes)? as the last call of a step, then on with stack stk. *)
Put(stk, bytes, rep) ==
    \/ Go(stk, out \o bytes, ws, rep)
    \/ FailAt(bytes, rep)

(* The stack overflows in a call of the walker. *)
StackOverflow ==
    /\ Walking
    /\ CanOverflow
    /\ AbortWith(out, repaired)
    /\ UNCHANGED <<srcv, peeked>>

(* A panic (unwrap on None, unwrap_err on Ok) aborts the process: the      *)
(* stack unwinds through main, exit status 101.                            *)
Panic ==
    /\ result' = "panic"
    /\ stack' = <<>>
    /\ mpc' = "done"
    /\ exit' = 101
    /\ flush' = "unwind"
    /\ UNCHANGED <<out, ws, repaired, ioerr, cfgv, runv>>

(* --------------------------- the walker ------------------------------- *)
(* lib.rs 69-75 *)
WalkJson ==
    /\ At("walk_json", "start")
    /\ Call(<<F("walk_element", "start"), F("walk_json", "ret")>>)
    /\ UNCHANGED <<srcv, peeked>>

(* lib.rs 397-405: walk_ws, walk_value, walk_ws, all on w. *)
WalkElement ==
    /\ At("walk_element", "start")
    /\ Call(<<FWs("out"), F("walk_value", "start"), FWs("out"),
               F("walk_element", "ret")>>)
    /\ UNCHANGED <<srcv, peeked>>

(* lib.rs 618-635: one iteration of walk_ws's loop.  The writer is the     *)
(* sink, or the caller's pending-whitespace Vec.                           *)
WalkWs ==
    /\ At("walk_ws", "loop")
    /\ \E it \in Cand :
        \/ /\ IsWs(it)
           /\ IF Top.w = "ws"
              THEN NextItem(it) /\ Go(stack, out, Append(ws, it), repaired)
              ELSE \/ NextItem(it) /\ Go(stack, Append(out, it), ws, repaired)
                   \/ Peek(it) /\ ThrowWrite(out, repaired)
        \/ /\ IsByte(it) /\ ~IsWs(it)
           /\ Peek(it)
           /\ Ret
        \/ /\ IsErr(it)
           /\ NextItem(it)
           /\ ThrowIo(it)
        \/ /\ it = Eof
           /\ Peek(it)
           /\ Ret

(* lib.rs 77-173: the dispatch on the lookahead byte. *)
WalkValue ==
    /\ At("walk_value", "start")
    /\ \E it \in Cand :
        \/ /\ it = Eof
           /\ Peek(it)
           /\ ThrowEof
        \/ /\ IsErr(it)
           /\ NextItem(it)
           /\ ThrowIo(it)
        \/ /\ it = CHR_n
           /\ NextItem(it)
           /\ Goto(FLit(<<CHR_u, CHR_l, CHR_l>>, <<CHR_n, CHR_u, CHR_l, CHR_l>>))
        \/ /\ it = CHR_t
           /\ NextItem(it)
           /\ Goto(FLit(<<CHR_r, CHR_u, CHR_e>>, <<CHR_t, CHR_r, CHR_u, CHR_e>>))
        \/ /\ it = CHR_f
           /\ NextItem(it)
           /\ Goto(FLit(<<CHR_a, CHR_l, CHR_s, CHR_e>>,
                        <<CHR_f, CHR_a, CHR_l, CHR_s, CHR_e>>))
        \/ /\ it = LBRACE
           /\ Peek(it)
           /\ Call(<<F("walk_object", "start"), F("walk_value", "ret")>>)
        \/ /\ it = LBRACKET
           /\ Peek(it)
           /\ Call(<<F("walk_array", "start"), F("walk_value", "ret")>>)
        \/ /\ it = QUOTE
           /\ Peek(it)
           /\ Call(<<F("walk_string", "start"), F("walk_value", "ret")>>)
        \/ /\ it = MINUS \/ IsDigit(it)
           /\ Peek(it)
           /\ Call(<<F("walk_number", "start"), F("walk_value", "ret")>>)
        \/ /\ IsByte(it)
           /\ it \notin {CHR_n, CHR_t, CHR_f, LBRACE, LBRACKET, QUOTE, MINUS}
           /\ ~IsDigit(it)
           /\ Peek(it)
           /\ ThrowInvalid

(* lib.rs 92-111, 115-134, 138-163: one input.next() of a literal matched  *)
(* against its spelling; after the last one the literal is written.        *)
WalkLiteral ==
    /\ At("walk_value", "literal")
    /\ \E it \in Cand :
        /\ NextItem(it)
        /\ \/ /\ it = Head(Top.rest)
              /\ IF Len(Top.rest) = 1
                 THEN Put(Tail(stack), Top.lit, repaired)
                 ELSE Goto(FLit(Tail(Top.rest), Top.lit))
           \/ /\ IsByte(it) /\ it # Head(Top.rest)
              /\ ThrowInvalid
           \/ /\ IsErr(it)
              /\ ThrowIo(it)
           \/ /\ it = Eof
              /\ ThrowEof

(* lib.rs 180-183 *)
WalkObjectOpen ==
    /\ At("walk_object", "start")
    /\ \/ \E it \in Cand :
            /\ NextItem(it)
            /\ Go(<<FWs("out"), F("walk_object", "members_opt")>> \o Tail(stack),
                  Append(out, LBRACE), ws, repaired)
       \/ /\ ThrowWrite(out, repaired)
          /\ UNCHANGED <<srcv, peeked>>

(* lib.rs 185-194 *)
WalkObjectMembersOpt ==
    /\ At("walk_object", "members_opt")
    /\ \E it \in Cand :
        \/ /\ it = Eof
           /\ Peek(it)
           /\ ThrowEof
        \/ /\ IsErr(it)
           /\ NextItem(it)
           /\ ThrowIo(it)
        \/ /\ it = QUOTE
           /\ Peek(it)
           /\ Call(<<F("walk_members", "member"), F("walk_object", "trailing_comma_opt")>>)
        \/ /\ IsByte(it) /\ it # QUOTE
           /\ Peek(it)
           /\ Goto(F("walk_object", "trailing_comma_opt"))

(* lib.rs 196-207 *)
WalkObjectTrailingCommaOpt ==
    /\ At("walk_object", "trailing_comma_opt")
    /\ \E it \in Cand :
        \/ /\ it = Eof
           /\ Peek(it)
           /\ ThrowEof
        \/ /\ IsErr(it)
           /\ NextItem(it)
           /\ ThrowIo(it)
        \/ /\ it = COMMA
           /\ NextItem(it)
           /\ Go(<<FWs("out"), F("walk_object", "close")>> \o Tail(stack),
                 out, ws, TRUE)
        \/ /\ IsByte(it) /\ it # COMMA
           /\ Peek(it)
           /\ Goto(F("walk_object", "close"))

(* lib.rs 209-217 *)
WalkObjectClose ==
    /\ At("walk_object", "close")
    /\ \E it \in Cand :
        /\ NextItem(it)
        /\ \/ /\ it = Eof
              /\ ThrowEof
           \/ /\ IsErr(it)
              /\ ThrowIo(it)
           \/ /\ it = RBRACE
              /\ Put(Tail(stack), <<RBRACE>>, repaired)
           \/ /\ IsByte(it) /\ it # RBRACE
              /\ ThrowInvalid

(* lib.rs 225-226: the loop of walk_members starts with a member. *)
WalkMembersMember ==
    /\ At("walk_members", "member")
    /\ Call(<<F("walk_member", "start"), F("walk_members", "ws")>>)
    /\ UNCHANGED <<srcv, peeked>>

(* lib.rs 228-229: a new Vec, and walk_ws into it. *)
WalkMembersWs ==
    /\ At("walk_members", "ws")
    /\ Go(<<FWs("ws"), F("walk_members", "sep")>> \o Tail(stack), out, <<>>, repaired)
    /\ UNCHANGED <<srcv, peeked>>

(* A writer that puts the comma after the pending whitespace. *)
WriteWsComma(o, w) == o \o w \o <<COMMA>>

(* lib.rs 263-264, 270-271, 383-384, 390-391: a comma, then the Vec. *)
WriteCommaWs(o, w) == o \o <<COMMA>> \o w

(* lib.rs 240, 244, 259, 360, 364, 379: the Vec alone. *)
WriteWs(o, w) == o \o w

(* lib.rs 231-248, 268-272: the byte after the member and its whitespace.  *)
(* After a comma, walk_ws appends to the same Vec, which still holds the   *)
(* whitespace already written at line 244.                                 *)
WalkMembersSep ==
    /\ At("walk_members", "sep")
    /\ \E it \in Cand :
        \/ /\ it = Eof
           /\ Peek(it)
           /\ ThrowEof
        \/ /\ IsErr(it)
           /\ NextItem(it)
           /\ ThrowIo(it)
        \/ /\ it = RBRACE
           /\ Peek(it)
           /\ \/ Go(Tail(stack), WriteWs(out, ws), <<>>, repaired)
              \/ FailAt(ws, repaired)
        \/ /\ it = COMMA
           /\ \/ /\ NextItem(it)
                 /\ Go(<<FWs("ws"), F("walk_members", "after_comma")>> \o Tail(stack),
                       WriteWs(out, ws), ws, repaired)
              \/ /\ Peek(it)
                 /\ FailAt(ws, repaired)
        \/ /\ IsByte(it) /\ it \notin {RBRACE, COMMA}
           /\ Peek(it)
           /\ \/ Go(<<F("walk_members", "member")>> \o Tail(stack),
                    WriteCommaWs(out, ws), <<>>, TRUE)
              \/ FailAt(WriteCommaWs(<<>>, ws), TRUE)

(* lib.rs 250-266: the byte after a comma and its whitespace. *)
WalkMembersAfterComma ==
    /\ At("walk_members", "after_comma")
    /\ \E it \in Cand :
        \/ /\ it = Eof
           /\ Peek(it)
           /\ ThrowEof
        \/ /\ IsErr(it)
           /\ NextItem(it)
           /\ ThrowIo(it)
        \/ /\ it = RBRACE
           /\ Peek(it)
           /\ \/ Go(Tail(stack), WriteWs(out, ws), <<>>, TRUE)
              \/ FailAt(ws, TRUE)
        \/ /\ IsByte(it) /\ it # RBRACE
           /\ Peek(it)
           /\ \/ Go(<<F("walk_members", "member")>> \o Tail(stack),
                    WriteCommaWs(out, ws), <<>>, repaired)
              \/ FailAt(WriteCommaWs(<<>>, ws), repaired)

(* lib.rs 282-283: the key, then whitespace. *)
WalkMember ==
    /\ At("walk_member", "start")
    /\ Call(<<F("walk_string", "start"), FWs("out"), F("walk_member", "colon")>>)
    /\ UNCHANGED <<srcv, peeked>>

(* lib.rs 284-292: the colon, then the element. *)
WalkMemberColon ==
    /\ At("walk_member", "colon")
    /\ \E it \in Cand :
        /\ NextItem(it)
        /\ \/ /\ it = Eof
              /\ ThrowEof
           \/ /\ IsErr(it)
              /\ ThrowIo(it)
           \/ /\ it = COLON
              /\ Put(<<F("walk_element", "start"), F("walk_member", "ret")>> \o Tail(stack),
                     <<COLON>>, repaired)
           \/ /\ IsByte(it) /\ it # COLON
              /\ ThrowInvalid

(* lib.rs 300-303 *)
WalkArrayOpen ==
    /\ At("walk_array", "start")
    /\ \/ \E it \in Cand :
            /\ NextItem(it)
            /\ Go(<<FWs("out"), F("walk_array", "elements_opt")>> \o Tail(stack),
                  Append(out, LBRACKET), ws, repaired)
       \/ /\ ThrowWrite(out, repaired)
          /\ UNCHANGED <<srcv, peeked>>

(* lib.rs 305-314 *)
WalkArrayElementsOpt ==
    /\ At("walk_array", "elements_opt")
    /\ \E it \in Cand :
        \/ /\ it = Eof
           /\ Peek(it)
           /\ ThrowEof
        \/ /\ IsErr(it)
           /\ NextItem(it)
           /\ ThrowIo(it)
        \/ /\ IsByte(it) /\ it # COMMA /\ it # RBRACKET
           /\ Peek(it)
           /\ Call(<<F("walk_elements", "value"), F("walk_array", "trailing_comma_opt")>>)
        \/ /\ it \in {COMMA, RBRACKET}
           /\ Peek(it)
           /\ Goto(F("walk_array", "trailing_comma_opt"))

(* lib.rs 316-327 *)
WalkArrayTrailingCommaOpt ==
    /\ At("walk_array", "trailing_comma_opt")
    /\ \E it \in Cand :
        \/ /\ it = Eof
           /\ Peek(it)
           /\ ThrowEof
        \/ /\ IsErr(it)
           /\ NextItem(it)
           /\ ThrowIo(it)
        \/ /\ it = COMMA
           /\ NextItem(it)
           /\ Go(<<FWs("out"), F("walk_array", "close")>> \o Tail(stack),
                 out, ws, TRUE)
        \/ /\ IsByte(it) /\ it # COMMA
           /\ Peek(it)
           /\ Goto(F("walk_array", "close"))

(* lib.rs 329-337 *)
WalkArrayClose ==
    /\ At("walk_array", "close")
    /\ \E it \in Cand :
        /\ NextItem(it)
        /\ \/ /\ it = Eof
              /\ ThrowEof
           \/ /\ IsErr(it)
              /\ ThrowIo(it)
           \/ /\ it = RBRACKET
              /\ Put(Tail(stack), <<RBRACKET>>, repaired)
           \/ /\ IsByte(it) /\ it # RBRACKET
              /\ ThrowInvalid

(* lib.rs 345-346: the loop of walk_elements starts with a value. *)
WalkElementsValue ==
    /\ At("walk_elements", "value")
    /\ Call(<<F("walk_value", "start"), F("walk_elements", "ws")>>)
    /\ UNCHANGED <<srcv, peeked>>

(* lib.rs 348-349: a new Vec, and walk_ws into it. *)
WalkElementsWs ==
    /\ At("walk_elements", "ws")
    /\ Go(<<FWs("ws"), F("walk_elements", "sep")>> \o Tail(stack), out, <<>>, repaired)
    /\ UNCHANGED <<srcv, peeked>>

(* lib.rs 351-368, 388-392: the byte after the value and its whitespace.   *)
(* After a comma, walk_ws appends to the same Vec, which still holds the   *)
(* whitespace already written at line 364.                                 *)
WalkElementsSep ==
    /\ At("walk_elements", "sep")
    /\ \E it \in Cand :
        \/ /\ it = Eof
           /\ Peek(it)
           /\ ThrowEof
        \/ /\ IsErr(it)
           /\ NextItem(it)
           /\ ThrowIo(it)
        \/ /\ it = RBRACKET
           /\ Peek(it)
           /\ \/ Go(Tail(stack), WriteWs(out, ws), <<>>, repaired)
              \/ FailAt(ws, repaired)
        \/ /\ it = COMMA
           /\ \/ /\ NextItem(it)
                 /\ Go(<<FWs("ws"), F("walk_elements", "after_comma")>> \o Tail(stack),
                       WriteWs(out, ws), ws, repaired)
              \/ /\ Peek(it)
                 /\ FailAt(ws, repaired)
        \/ /\ IsByte(it) /\ it \notin {RBRACKET, COMMA}
           /\ Peek(it)
           /\ \/ Go(<<F("walk_elements", "value")>> \o Tail(stack),
                    WriteCommaWs(out, ws), <<>>, TRUE)
              \/ FailAt(WriteCommaWs(<<>>, ws), TRUE)

(* lib.rs 370-386: the byte after a comma and its whitespace. *)
WalkElementsAfterComma ==
    /\ At("walk_elements", "after_comma")
    /\ \E it \in Cand :
        \/ /\ it = Eof
           /\ Peek(it)
           /\ ThrowEof
        \/ /\ IsErr(it)
           /\ NextItem(it)
           /\ ThrowIo(it)
        \/ /\ it = RBRACKET
           /\ Peek(it)
           /\ \/ Go(Tail(stack), WriteWs(out, ws), <<>>, TRUE)
              \/ FailAt(ws, TRUE)
        \/ /\ IsByte(it) /\ it # RBRACKET
           /\ Peek(it)
           /\ \/ Go(<<F("walk_elements", "value")>> \o Tail(stack),
                    WriteCommaWs(out, ws), <<>>, repaired)
              \/ FailAt(WriteCommaWs(<<>>, ws), repaired)

(* lib.rs 412-413: the opening quote is written and one item is taken,     *)
(* whatever it is.                                                         *)
WalkStringOpen ==
    /\ At("walk_string", "start")
    /\ \/ \E it \in Cand :
            /\ NextItem(it)
            /\ Go(<<F("walk_string", "loop")>> \o Tail(stack),
                  Append(out, QUOTE), ws, repaired)
       \/ /\ ThrowWrite(out, repaired)
          /\ UNCHANGED <<srcv, peeked>>

(* lib.rs 414-428: one iteration of walk_string's loop.  On Some(Err(_))   *)
(* the failure has been taken out of the iterator and dropped.             *)
WalkStringLoop ==
    /\ At("walk_string", "loop")
    /\ \E it \in Cand :
        /\ NextItem(it)
        /\ \/ /\ it = QUOTE
              /\ Put(Tail(stack), <<QUOTE>>, repaired)
           \/ /\ it = BACKSLASH
              /\ Call(<<F("walk_escape", "start"), F("walk_string", "loop")>>)
           \/ /\ IsByte(it) /\ it \notin {QUOTE, BACKSLASH}
              /\ Put(stack, <<it>>, repaired)
           \/ /\ IsErr(it)
              /\ Goto(F("walk_string", "err"))
           \/ /\ it = Eof
              /\ ThrowEof

(* lib.rs 423: input.next().unwrap().unwrap_err() on the item after the    *)
(* failure.                                                                *)
WalkStringErr ==
    /\ At("walk_string", "err")
    /\ \E it \in Cand :
        /\ NextItem(it)
        /\ \/ /\ IsErr(it)
              /\ ThrowIo(it)
           \/ /\ IsByte(it) \/ it = Eof
              /\ Panic

(* lib.rs 473: what is written for a \u escape with hex digits u. *)
WriteUnicodeEscape(u) == <<BACKSLASH>> \o u

(* lib.rs 436-444, 475 *)
WalkEscape ==
    /\ At("walk_escape", "start")
    /\ \E it \in Cand :
        /\ NextItem(it)
        /\ \/ /\ it = Eof
              /\ ThrowEof
           \/ /\ IsErr(it)
              /\ ThrowIo(it)
           \/ /\ IsSimpleEscape(it)
              /\ Put(Tail(stack), <<BACKSLASH, it>>, repaired)
           \/ /\ it = CHR_u
              /\ Goto(FEsc(<<>>))
           \/ /\ IsByte(it) /\ ~IsSimpleEscape(it) /\ it # CHR_u
              /\ ThrowInvalid

(* lib.rs 445-473: one of the four hex digits u1..u4. *)
WalkEscapeHex ==
    /\ At("walk_escape", "hex")
    /\ \E it \in Cand :
        /\ NextItem(it)
        /\ \/ /\ it = Eof
              /\ ThrowEof
           \/ /\ IsErr(it)
              /\ ThrowIo(it)
           \/ /\ IsByte(it) /\ ~IsHexDigit(it)
              /\ ThrowInvalid
           \/ /\ IsHexDigit(it)
              /\ IF Len(Top.u) = 3
                 THEN Put(Tail(stack), WriteUnicodeEscape(Append(Top.u, it)), repaired)
                 ELSE Goto(FEsc(Append(Top.u, it)))

(* lib.rs 485-487 *)
WalkNumber ==
    /\ At("walk_number", "start")
    /\ Call(<<F("walk_integer", "start"), F("walk_fraction", "start"),
              F("walk_exponent", "start"), F("walk_number", "ret")>>)
    /\ UNCHANGED <<srcv, peeked>>

(* lib.rs 495-509, 525: the first byte of the integer part.  After `-`     *)
(* walk_integer calls itself.                                              *)
WalkInteger ==
    /\ At("walk_integer", "start")
    /\ \E it \in Cand :
        /\ NextItem(it)
        /\ \/ /\ it = Eof
              /\ ThrowEof
           \/ /\ IsErr(it)
              /\ ThrowIo(it)
           \/ /\ it = MINUS
              /\ Put(<<F("walk_integer", "start"), F("walk_integer", "ret")>> \o Tail(stack),
                     <<MINUS>>, repaired)
           \/ /\ it = ZERO
              /\ Put(Tail(stack), <<ZERO>>, repaired)
           \/ /\ IsOneNine(it)
              /\ Put(<<F("walk_integer", "loop")>> \o Tail(stack), <<it>>, repaired)
           \/ /\ IsByte(it) /\ it # MINUS /\ ~IsDigit(it)
              /\ ThrowInvalid

(* lib.rs 510-523: one iteration of the digit loop of walk_integer. *)
WalkIntegerLoop ==
    /\ At("walk_integer", "loop")
    /\ \E it \in Cand :
        \/ /\ IsDigit(it)
           /\ \/ NextItem(it) /\ Go(stack, Append(out, it), ws, repaired)
              \/ Peek(it) /\ ThrowWrite(out, repaired)
        \/ /\ IsByte(it) /\ ~IsDigit(it)
           /\ Peek(it)
           /\ Ret
        \/ /\ IsErr(it)
           /\ NextItem(it)
           /\ ThrowIo(it)
        \/ /\ it = Eof
           /\ Peek(it)
           /\ Ret

(* lib.rs 535-558: one iteration of walk_digits's loop, and the check      *)
(* after it.                                                               *)
WalkDigits ==
    /\ At("walk_digits", "loop")
    /\ \E it \in Cand :
        \/ /\ IsDigit(it)
           /\ \/ /\ NextItem(it)
                 /\ Go(<<FDigits(TRUE)>> \o Tail(stack), Append(out, it), ws, repaired)
              \/ Peek(it) /\ ThrowWrite(out, repaired)
        \/ /\ IsErr(it)
           /\ NextItem(it)
           /\ ThrowIo(it)
        \/ /\ (IsByte(it) /\ ~IsDigit(it)) \/ it = Eof
           /\ Peek(it)
           /\ IF Top.has_digit THEN Ret
              ELSE IF it = Eof THEN ThrowEof ELSE ThrowInvalid

(* lib.rs 566-577 *)
WalkFraction ==
    /\ At("walk_fraction", "start")
    /\ \E it \in Cand :
        \/ /\ it = Eof
           /\ Peek(it)
           /\ Ret
        \/ /\ IsErr(it)
           /\ NextItem(it)
           /\ ThrowIo(it)
        \/ /\ IsByte(it) /\ it # DOT
           /\ Peek(it)
           /\ Ret
        \/ /\ it = DOT
           /\ \/ /\ NextItem(it)
                 /\ Go(<<FDigits(FALSE), F("walk_fraction", "ret")>> \o Tail(stack),
                       Append(out, DOT), ws, repaired)
              \/ Peek(it) /\ ThrowWrite(out, repaired)

(* lib.rs 585-597 *)
WalkExponent ==
    /\ At("walk_exponent", "start")
    /\ \E it \in Cand :
        \/ /\ it = Eof
           /\ Peek(it)
           /\ Ret
        \/ /\ IsErr(it)
           /\ NextItem(it)
           /\ ThrowIo(it)
        \/ /\ IsByte(it) /\ it # CHR_e /\ it # UPPER_E
           /\ Peek(it)
           /\ Ret
        \/ /\ it \in {CHR_e, UPPER_E}
           /\ \/ /\ NextItem(it)
                 /\ Go(<<F("walk_sign", "start"), FDigits(FALSE),
                         F("walk_exponent", "ret")>> \o Tail(stack),
                       Append(out, it), ws, repaired)
              \/ Peek(it) /\ ThrowWrite(out, repaired)

(* lib.rs 605-615 *)
WalkSign ==
    /\ At("walk_sign", "start")
    /\ \E it \in Cand :
        \/ /\ it = Eof
           /\ Peek(it)
           /\ ThrowEof
        \/ /\ IsErr(it)
           /\ NextItem(it)
           /\ ThrowIo(it)
        \/ /\ it \in {PLUS, MINUS}
           /\ \/ NextItem(it) /\ Go(Tail(stack), Append(out, it), ws, repaired)
              \/ Peek(it) /\ ThrowWrite(out, repaired)
        \/ /\ IsByte(it) /\ it \notin {PLUS, MINUS}
           /\ Peek(it)
           /\ Ret

(* ------------------------- repair and main ---------------------------- *)
(* lib.rs 45-49: the outcome of a walk that returned Ok. *)
Outcome(rep) == IF rep THEN "Repaired" ELSE "Valid"

(* lib.rs 42-52: walk_json returned Ok(_). *)
RepairOk ==
    /\ mpc = "walk"
    /\ stack = <<>>
    /\ result = "none"
    /\ result' = Outcome(repaired)
    /\ mpc' = "exit"
    /\ UNCHANGED <<srcv, peeked, out, ws, repaired, stack, ioerr, exit, flush,
                   cfgv, runv>>

(* The io::Error of a failed File::open. *)
ERR_OPEN == 3

(* main.rs 28-47, lib.rs 42-44: open the input; a failure of File::open    *)
(* is returned as RepairErr::IoErr; otherwise a new Parser walks the       *)
(* stream.                                                                 *)
MainRepair ==
    /\ mpc = "open"
    /\ IF openFails
       THEN /\ result' = "IoErr"
            /\ ioerr' = ERR_OPEN
            /\ mpc' = "exit"
            /\ UNCHANGED stack
       ELSE /\ stack' = <<F("walk_json", "start")>>
            /\ mpc' = "walk"
            /\ UNCHANGED <<result, ioerr>>
    /\ UNCHANGED <<srcv, peeked, out, ws, repaired, exit, flush, cfgv, runv>>

(* main.rs 55-72: the exit code chosen for the outcome. *)
ExitCodeOf(r, q) ==
    CASE r = "Valid" -> 0
      [] r = "Repaired" -> IF q THEN 0 ELSE 1
      [] r \in {"UnexpectedEof", "InvalidValue"} -> 2
      [] r = "IoErr" -> 3

(* main.rs 74-75, and Termination for Result: when writer.flush() fails,   *)
(* `?` returns the error from main and the process exits with status 1.    *)
ExitStatus(code, flushOk) == IF flushOk THEN code ELSE 1

(* main.rs 55-75.  eprintln! (main.rs 65, 69) panics when standard error   *)
(* cannot be written: status 101, line 74 is not reached and the BufWriter *)
(* is dropped in the unwinding.  writer.flush() can fail only when the     *)
(* BufWriter holds bytes.                                                  *)
MainExit ==
    /\ mpc = "exit"
    /\ \/ \E flushOk \in BOOLEAN :
            /\ ~flushOk => out # <<>>
            /\ flush' = IF flushOk THEN "ok" ELSE "failed"
            /\ exit' = ExitStatus(ExitCodeOf(result, quiet), flushOk)
       \/ /\ result \in {"UnexpectedEof", "InvalidValue", "IoErr"}
          /\ flush' = "unwind"
          /\ exit' = 101
    /\ mpc' = "done"
    /\ UNCHANGED <<srcv, peeked, out, ws, repaired, stack, result, ioerr,
                   cfgv, runv>>

(* The program is run again on what the first run wrote to its output. *)
Rerun ==
    /\ mpc = "done"
    /\ run = 1
    /\ result \in {"Valid", "Repaired"}
    /\ flush = "ok"
    /\ input' = out
    /\ pos' = 0
    /\ more' = 0
    /\ suf' = <<>>
    /\ peeked' = NoPeek
    /\ out' = <<>>
    /\ ws' = <<>>
    /\ repaired' = FALSE
    /\ stack' = <<>>
    /\ result' = "none"
    /\ ioerr' = 0
    /\ mpc' = "open"
    /\ exit' = -1
    /\ flush' = "none"
    /\ run' = 2
    /\ out1' = out
    /\ res1' = result
    /\ UNCHANGED cfgv

(* ------------------------- the specification -------------------------- *)
Init ==
    /\ \E c \in Contexts :
        /\ input = c.pre
        /\ suf = c.suf
        /\ more = c.n
    /\ pos = 0
    /\ peeked = NoPeek
    /\ out = <<>>
    /\ ws = <<>>
    /\ repaired = FALSE
    /\ stack = <<>>
    /\ result = "none"
    /\ ioerr = 0
    /\ quiet \in BOOLEAN
    /\ openFails \in BOOLEAN
    /\ mpc = "open"
    /\ exit = -1
    /\ flush = "none"
    /\ run = 1
    /\ out1 = <<>>
    /\ res1 = "none"

Next ==
    \/ MainRepair
    \/ WalkJson
    \/ WalkElement
    \/ WalkWs
    \/ WalkValue
    \/ WalkLiteral
    \/ WalkObjectOpen
    \/ WalkObjectMembersOpt
    \/ WalkObjectTrailingCommaOpt
    \/ WalkObjectClose
    \/ WalkMembersMember
    \/ WalkMembersWs
    \/ WalkMembersSep
    \/ WalkMembersAfterComma
    \/ WalkMember
    \/ WalkMemberColon
    \/ WalkArrayOpen
    \/ WalkArrayElementsOpt
    \/ WalkArrayTrailingCommaOpt
    \/ WalkArrayClose
    \/ WalkElementsValue
    \/ WalkElementsWs
    \/ WalkElementsSep
    \/ WalkElementsAfterComma
    \/ WalkStringOpen
    \/ WalkStringLoop
    \/ WalkStringErr
    \/ WalkEscape
    \/ WalkEscapeHex
    \/ WalkNumber
    \/ WalkInteger
    \/ WalkIntegerLoop
    \/ WalkDigits
    \/ WalkFraction
    \/ WalkExponent
    \/ WalkSign
    \/ StackOverflow
    \/ RepairOk
    \/ MainExit
    \/ Rerun

Spec == Init /\ [][Next]_vars

(* ---------------------- reference grammar ----------------------------- *)
(* JSON as the claims understand it, independent of the walker: used only  *)
(* to state the claims.  A recognizer returns [p, m, t]: p is the position *)
(* after what it recognized (0: not recognized), m the number of missing   *)
(* commas and t the number of trailing commas it met.  With lc = FALSE a   *)
(* comma defect is not recognized at all (strict JSON); with ls = TRUE the *)
(* content of a string is not examined beyond finding its closing quote.   *)
RByte(s, i) == IF i \in 1..Len(s) THEN s[i] ELSE Eof

RFail == [p |-> 0, m |-> 0, t |-> 0]
RAt(i) == [p |-> i, m |-> 0, t |-> 0]

RECURSIVE RSkipWs(_, _)
RSkipWs(s, i) == IF IsWs(RByte(s, i)) THEN RSkipWs(s, i + 1) ELSE i

RECURSIVE RDigits(_, _)
RDigits(s, i) == IF IsDigit(RByte(s, i)) THEN RDigits(s, i + 1) ELSE i

(* The body of a string from position i, after the opening quote. *)
RECURSIVE RString(_, _, _)
RString(s, i, ls) ==
    LET c == RByte(s, i)
        d == RByte(s, i + 1)
    IN  IF c = QUOTE THEN i + 1
        ELSE IF c = BACKSLASH
        THEN IF ls THEN (IF IsByte(d) THEN RString(s, i + 2, ls) ELSE 0)
             ELSE IF IsSimpleEscape(d) THEN RString(s, i + 2, ls)
             ELSE IF d = CHR_u /\ \A k \in 2..5 : IsHexDigit(RByte(s, i + k))
             THEN RString(s, i + 6, ls)
             ELSE 0
        ELSE IF IsByte(c) /\ (ls \/ c >= SP) THEN RString(s, i + 1, ls)
        ELSE 0

(* A number from position i: an optional minus; 0, or a digit 1-9 and      *)
(* digits; an optional fraction; an optional exponent.                     *)
RNumber(s, i) ==
    LET a == IF RByte(s, i) = MINUS THEN i + 1 ELSE i
        b == IF RByte(s, a) = ZERO THEN a + 1
             ELSE IF IsOneNine(RByte(s, a)) THEN RDigits(s, a + 1)
             ELSE 0
        c == IF b = 0 THEN 0
             ELSE IF RByte(s, b) # DOT THEN b
             ELSE IF IsDigit(RByte(s, b + 1)) THEN RDigits(s, b + 1)
             ELSE 0
        e == IF RByte(s, c + 1) \in {PLUS, MINUS} THEN c + 2 ELSE c + 1
        d == IF c = 0 THEN 0
             ELSE IF RByte(s, c) \notin {CHR_e, UPPER_E} THEN c
             ELSE IF IsDigit(RByte(s, e)) THEN RDigits(s, e)
             ELSE 0
    IN  d

(* The literal lit at position i. *)
RLiteral(s, i, lit) ==
    IF \A k \in 1..Len(lit) : RByte(s, i + k - 1) = lit[k] THEN i + Len(lit) ELSE 0

(* Bytes that delimit a value by themselves: a value that ends or starts   *)
(* with one is a sibling of its neighbour even with no whitespace between. *)
RDelimits(c) == c \in {QUOTE, LBRACKET, RBRACKET, LBRACE, RBRACE}

RECURSIVE RValue(_, _, _, _)
RECURSIVE RItems(_, _, _, _, _, _, _, _)

(* One item of a container at position j: a value, or key : value. *)
RItem(s, j, obj, lc, ls) ==
    IF ~obj THEN RValue(s, j, lc, ls)
    ELSE IF RByte(s, j) # QUOTE THEN RFail
    ELSE LET k == RString(s, j + 1, ls)
             c == RSkipWs(s, k)
         IN  IF k = 0 \/ RByte(s, c) # COLON THEN RFail
             ELSE RValue(s, RSkipWs(s, c + 1), lc, ls)

(* The items of a container up to its closing bracket `close`, from        *)
(* position j (whitespace skipped).  st is "first" before any item,        *)
(* "item" after an item, "comma" after an item and a comma; e is the       *)
(* position after the last item (0 if none).                               *)
RItems(s, j, close, obj, lc, ls, st, e) ==
    LET c == RByte(s, j)
        item == RItem(s, j, obj, lc, ls)
        j2 == RSkipWs(s, j + 1)
        after == IF item.p = 0 THEN RFail
                 ELSE RItems(s, RSkipWs(s, item.p), close, obj, lc, ls, "item", item.p)
        rest == IF after.p = 0 THEN RFail
                ELSE [p |-> after.p, m |-> item.m + after.m, t |-> item.t + after.t]
        sibling == j > e \/ RDelimits(RByte(s, e - 1)) \/ RDelimits(c)
    IN  IF c = close
        THEN IF st = "comma"
             THEN (IF lc THEN [p |-> j + 1, m |-> 0, t |-> 1] ELSE RFail)
             ELSE RAt(j + 1)
        ELSE IF c = COMMA
        THEN IF st = "item"
             THEN RItems(s, j2, close, obj, lc, ls, "comma", e)
             ELSE IF st = "first" /\ lc /\ RByte(s, j2) = close
             THEN [p |-> j2 + 1, m |-> 0, t |-> 1]
             ELSE RFail
        ELSE IF st = "item"
        THEN IF lc /\ sibling /\ rest.p # 0
             THEN [p |-> rest.p, m |-> rest.m + 1, t |-> rest.t]
             ELSE RFail
        ELSE rest

RValue(s, i, lc, ls) ==
    LET c == RByte(s, i)
    IN  IF c = QUOTE THEN RAt(RString(s, i + 1, ls))
        ELSE IF c = MINUS \/ IsDigit(c) THEN RAt(RNumber(s, i))
        ELSE IF c = CHR_n THEN RAt(RLiteral(s, i, <<CHR_n, CHR_u, CHR_l, CHR_l>>))
        ELSE IF c = CHR_t THEN RAt(RLiteral(s, i, <<CHR_t, CHR_r, CHR_u, CHR_e>>))
        ELSE IF c = CHR_f
        THEN RAt(RLiteral(s, i, <<CHR_f, CHR_a, CHR_l, CHR_s, CHR_e>>))
        ELSE IF c = LBRACKET
        THEN RItems(s, RSkipWs(s, i + 1), RBRACKET, FALSE, lc, ls, "first", 0)
        ELSE IF c = LBRACE
        THEN RItems(s, RSkipWs(s, i + 1), RBRACE, TRUE, lc, ls, "first", 0)
        ELSE RFail

(* A whole document: whitespace, a value, whitespace, and nothing more. *)
RDoc(s, lc, ls) ==
    LET v == RValue(s, RSkipWs(s, 1), lc, ls)
    IN  IF v.p # 0 /\ RSkipWs(s, v.p) = Len(s) + 1 THEN v ELSE RFail

(* s is valid JSON. *)
IsValidJson(s) == RDoc(s, FALSE, FALSE).p # 0

(* s is valid JSON but for missing and trailing commas. *)
IsJsonButCommas(s) == RDoc(s, TRUE, FALSE).p # 0

(* How often byte c occurs in s. *)
RECURSIVE Count(_, _)
Count(s, c) ==
    IF s = <<>> THEN 0 ELSE (IF Head(s) = c THEN 1 ELSE 0) + Count(Tail(s), c)

(* s without its bytes c. *)
RECURSIVE Without(_, _)
Without(s, c) ==
    IF s = <<>> THEN <<>>
    ELSE (IF Head(s) = c THEN <<>> ELSE <<Head(s)>>) \o Without(Tail(s), c)

(* The structure of s from position i on: its brackets and commas, and one *)
(* ZERO for every other byte outside strings and whitespace; a string is   *)
(* one QUOTE, an unterminated string is BACKSLASH.                         *)
RECURSIVE RStructure(_, _)
RStructure(s, i) ==
    LET c == RByte(s, i)
        e == RString(s, i + 1, TRUE)
    IN  IF i > Len(s) THEN <<>>
        ELSE IF c = QUOTE
        THEN (IF e = 0 THEN <<BACKSLASH>> ELSE <<QUOTE>> \o RStructure(s, e))
        ELSE IF IsWs(c) THEN RStructure(s, i + 1)
        ELSE IF c \in {LBRACKET, RBRACKET, LBRACE, RBRACE, COMMA}
        THEN <<c>> \o RStructure(s, i + 1)
        ELSE <<ZERO>> \o RStructure(s, i + 1)

(* Two commas with nothing but whitespace between them. *)
HasDoubledComma(t) == \E i \in 1..(Len(t) - 1) : t[i] = COMMA /\ t[i + 1] = COMMA

(* The brackets of structure t from position i on do not match, `open`     *)
(* being the closers owed (innermost first).  A stream that may go on      *)
(* (whole = FALSE) is unbalanced only by a closer that matches nothing.    *)
RECURSIVE IsUnbalanced(_, _, _, _)
IsUnbalanced(t, i, open, whole) ==
    IF i > Len(t) THEN whole /\ open # <<>>
    ELSE IF t[i] = LBRACKET THEN IsUnbalanced(t, i + 1, <<RBRACKET>> \o open, whole)
    ELSE IF t[i] = LBRACE THEN IsUnbalanced(t, i + 1, <<RBRACE>> \o open, whole)
    ELSE IF t[i] \in {RBRACKET, RBRACE}
    THEN open = <<>> \/ Head(open) # t[i] \/ IsUnbalanced(t, i + 1, Tail(open), whole)
    ELSE IF t[i] = BACKSLASH THEN whole /\ open # <<>>
    ELSE IsUnbalanced(t, i + 1, open, whole)

(* ------------------------------ claims -------------------------------- *)
(* repair has returned. *)
Returned == result \in {"Valid", "Repaired", "UnexpectedEof", "InvalidValue", "IoErr"}

(* repair has returned the failure of a write to the sink. *)
SinkFailed == result = "IoErr" /\ ioerr = ERR_WRITE

(* The walk was cut short from outside: by a sink that fails, or by a      *)
(* chain of calls deeper than the stack holds.                             *)
Cut == SinkFailed \/ result = "abort"

(* Run 1 has ended, and was not cut short. *)
Done1 == run = 1 /\ result # "none" /\ ~Cut

(* The stream is exactly `input`: nothing more will be appended. *)
WholeStream == more = 0 /\ suf = <<>>

(* The stream holds no read failure. *)
NoReadFailure == \A i \in 1..Len(input) : IsByte(input[i])

(* C1 Valid-input identity: for every stream that is valid JSON with no    *)
(* comma defect, repair returns Valid and the bytes written are exactly    *)
(* the stream.                                                             *)
C1_ValidInputIdentity ==
    (Done1 /\ WholeStream /\ IsValidJson(input))
        => (result = "Valid" /\ out = input)

(* C2 Trailing-data enforcement: once the top-level element is parsed, a   *)
(* byte remaining in the source makes repair fail; with a byte in the      *)
(* lookahead the result is never Valid or Repaired.                        *)
C2_TrailingData ==
    (result \in {"Valid", "Repaired"}) => ~IsByte(peeked)

(* C3 Repair locality: when repair returns Repaired for a stream it read   *)
(* to its end, output and input differ by commas only: with the commas     *)
(* taken out they are the same bytes in the same order.                    *)
C3_RepairLocality ==
    (Done1 /\ result = "Repaired" /\ peeked = Eof)
        => (Without(out, COMMA) = Without(input, COMMA))

(* C4 Idempotence: repair run on the output of a successful run returns    *)
(* Valid and writes that output again, byte for byte.                      *)
C4_Idempotence ==
    (run = 2 /\ result # "none" /\ ~Cut) => (result = "Valid" /\ out = out1)

(* C5 Invalid input is never Valid: repair returns Valid only for a stream *)
(* that it read to its end and that is valid JSON.                         *)
C5_InvalidNeverValid ==
    (run = 1 /\ result = "Valid") => (peeked = Eof /\ IsValidJson(input))

(* C6 Error determinism: a stream with unbalanced brackets or a doubled    *)
(* comma (and no read failure) ends in InvalidValue or UnexpectedEof,      *)
(* never in Valid or Repaired.                                             *)
C6_ErrorDeterminism ==
    (Done1 /\ NoReadFailure
       /\ (HasDoubledComma(RStructure(input, 1))
             \/ IsUnbalanced(RStructure(input, 1), 1, <<>>, WholeStream)))
        => (result \in {"InvalidValue", "UnexpectedEof"})

(* The step that finds a value or member where a comma was expected. *)
InsertsComma ==
    /\ At("walk_elements", "sep") \/ At("walk_members", "sep")
    /\ stack' # <<>>
    /\ stack'[1].fn = Top.fn
    /\ stack'[1].pc \in {"value", "member"}

(* The step that finds the closing bracket after a comma. *)
DropsComma ==
    \/ At("walk_elements", "after_comma") /\ peeked' = RBRACKET /\ result' # "abort"
    \/ At("walk_members", "after_comma") /\ peeked' = RBRACE /\ result' # "abort"
    \/ /\ At("walk_array", "trailing_comma_opt") \/ At("walk_object", "trailing_comma_opt")
       /\ peeked = COMMA
       /\ result' # "abort"

(* The flag is false when a run starts and is never reset during a run. *)
RepairedFlagIsMonotone ==
    /\ [](mpc = "open" => ~repaired)
    /\ [][(run' = run /\ repaired) => repaired']_vars

(* Both repairs set the flag. *)
RepairsSetFlag == [][(InsertsComma \/ DropsComma) => repaired']_vars

(* The outcome is Valid exactly when the flag is still false. *)
ValidIffNotRepaired ==
    []((result \in {"Valid", "Repaired"}) => ((result = "Valid") <=> ~repaired))

(* C7 as stated: the flag starts false, every repair sets it, it is never  *)
(* reset, the outcome is Valid iff it is false; a missing comma in an      *)
(* array or an object is written immediately after the preceding element   *)
(* or member, before the whitespace that follows it.                       *)
C7_CommaAfterPrecedingValue ==
    /\ RepairedFlagIsMonotone
    /\ RepairsSetFlag
    /\ ValidIffNotRepaired
    /\ [][InsertsComma =>
            /\ out' = out \o <<COMMA>> \o ws
            /\ ~IsWs(out[Len(out)])]_vars

(* C7 Repair flag semantics: the flag starts false, every repair sets it,  *)
(* it is never reset, and the outcome is Valid iff it is false.  A missing *)
(* comma between array elements is written immediately after the preceding *)
(* element, before the whitespace that follows it; a missing comma between *)
(* object members is written after that whitespace, immediately before the *)
(* next key.  A stream that is JSON but for its commas, read to its end,   *)
(* is Valid when it has no comma defect and Repaired otherwise, with one   *)
(* comma added per missing comma and one removed per trailing comma,       *)
(* however many there are, and the output has no comma defect left.        *)
C7_RepairFlagSemantics ==
    /\ RepairedFlagIsMonotone
    /\ RepairsSetFlag
    /\ ValidIffNotRepaired
    /\ [][InsertsComma =>
            /\ out' = out \o <<COMMA>> \o ws
            /\ At("walk_elements", "sep") => ~IsWs(out[Len(out)])
            /\ At("walk_members", "sep") => ws = <<>>]_vars
    /\ []((Done1 /\ WholeStream /\ IsJsonButCommas(input)) =>
            LET r == RDoc(input, TRUE, FALSE)
            IN  /\ result = (IF r.m + r.t = 0 THEN "Valid" ELSE "Repaired")
                /\ Count(out, COMMA) = Count(input, COMMA) + r.m - r.t
                /\ RDoc(out, FALSE, TRUE).p # 0)

(* An object with whitespace where a comma is missing has been repaired. *)
C7_Witness ==
    /\ Done1
    /\ result = "Repaired"
    /\ peeked = Eof
    /\ input[1] = LBRACE
    /\ RDoc(input, TRUE, FALSE).m >= 1
    /\ \E i \in 1..(Len(out) - 1) : out[i] = SP /\ out[i + 1] = COMMA

(* C8 Exit code mapping: when main returns, the writer has been flushed    *)
(* and the exit code is 0 for Valid, 0 for Repaired with -q, 1 for         *)
(* Repaired without -q, 2 for a syntax error and 3 for an I/O error.       *)
(* (Left aside: a read that fails, a write that fails during the walk, and *)
(* a standard error that cannot be written, status 101.)                   *)
C8_ExitCodeMapping ==
    (mpc = "done" /\ Returned /\ NoReadFailure /\ ~SinkFailed /\ exit # 101)
        => /\ flush \in {"ok", "failed"}
           /\ exit = ExitCodeOf(result, quiet)

(* C9 Escape handling: after a backslash, one of the eight simple escape   *)
(* bytes is written after the backslash; u and four hex digits are written *)
(* as the six bytes read; any other escape byte and any non-hex digit      *)
(* gives InvalidValue.  (A walk cut short from outside is left aside.)     *)
C9_EscapeHandling ==
    [][/\ (At("walk_escape", "start") /\ pos' = pos + 1 /\ IsByte(input'[pos'])) =>
            LET b == input'[pos']
            IN  /\ (IsSimpleEscape(b) /\ ~Cut') =>
                       out' = out \o <<BACKSLASH, b>>
                /\ (~IsSimpleEscape(b) /\ b # CHR_u) => result' = "InvalidValue"
       /\ (At("walk_escape", "hex") /\ pos' = pos + 1 /\ IsByte(input'[pos'])) =>
            LET b == input'[pos']
            IN  /\ ~IsHexDigit(b) => result' = "InvalidValue"
                /\ (IsHexDigit(b) /\ Len(Top.u) = 3 /\ ~Cut') =>
                       out' = out \o <<BACKSLASH, CHR_u>> \o Top.u \o <<b>>]_vars

(* walk_string is about to take the first byte of a member's key. *)
AtKeyStart ==
    /\ At("walk_string", "start")
    /\ Len(stack) >= 3
    /\ stack[3].fn = "walk_member"

(* C10 Object key strictness: when the next byte at the start of a member  *)
(* is not a double quote, the parser returns InvalidValue; it never takes  *)
(* that byte as the opening of a key.  (A walk cut short from outside is   *)
(* left aside.)                                                            *)
C10_ObjectKeyStrictness ==
    [][(AtKeyStart /\ IsByte(peeked) /\ peeked # QUOTE /\ ~Cut')
          => result' = "InvalidValue"]_vars

(* C11 Single leading minus: after the `-` of a number, a second `-` gives *)
(* InvalidValue; the walk does not go on past it, so the input is never    *)
(* Valid or Repaired.  (walk_integer starts with an empty lookahead only   *)
(* after the `-` it has just taken; a walk cut short is left aside.)       *)
C11_SingleLeadingMinus ==
    [][(/\ At("walk_integer", "start")
        /\ peeked = NoPeek
        /\ pos > 0
        /\ input[pos] = MINUS
        /\ pos' = pos + 1
        /\ input'[pos'] = MINUS
        /\ ~Cut')
          => result' = "InvalidValue"]_vars

(* The items the source has yielded so far. *)
ReadSoFar == SubSeq(input, 1, pos)

(* Outside strings, s has from position i on a 0 that starts the integer   *)
(* part of a number and is followed by a digit.                            *)
RECURSIVE HasLeadingZero(_, _)
HasLeadingZero(s, i) ==
    LET c == RByte(s, i)
        b == RByte(s, i - 1)
        e == RString(s, i + 1, TRUE)
        inNumber == \/ IsDigit(b)
                    \/ b \in {DOT, CHR_e, UPPER_E, PLUS}
                    \/ b = MINUS /\ RByte(s, i - 2) \in {CHR_e, UPPER_E}
    IN  IF i > Len(s) THEN FALSE
        ELSE IF c = QUOTE THEN e # 0 /\ HasLeadingZero(s, e)
        ELSE \/ c = ZERO /\ IsDigit(RByte(s, i + 1)) /\ ~inNumber
             \/ HasLeadingZero(s, i + 1)

(* C12 Leading zero: an input with a number whose integer part is a 0      *)
(* followed by a further digit is never Valid and never Repaired.          *)
C12_LeadingZero ==
    (Done1 /\ HasLeadingZero(ReadSoFar, 1)) => (result \notin {"Valid", "Repaired"})

(* The position of the first read failure among the first n items of s,    *)
(* 0 when there is none.                                                   *)
RECURSIVE FirstFailure(_, _)
FirstFailure(s, n) ==
    IF n = 0 THEN 0
    ELSE IF FirstFailure(s, n - 1) # 0 THEN FirstFailure(s, n - 1)
    ELSE IF IsErr(s[n]) THEN n ELSE 0

(* C13 I/O failure propagation: when the source has yielded a read         *)
(* failure, repair returns IoErr carrying that failure (the first one),    *)
(* whatever follows it; never a later failure, a syntax error or a panic.  *)
C13_IoFailurePropagation ==
    (Done1 /\ FirstFailure(input, pos) # 0)
        => /\ result = "IoErr"
           /\ ioerr = input[FirstFailure(input, pos)] - ERR_BASE

(* Every step that can be taken is eventually taken: the program runs on   *)
(* one thread and nothing suspends it.                                     *)
FairSpec == Spec /\ WF_vars(Next)

(* The read position: the items taken out of the Peekable. *)
Consumed == IF peeked \in {NoPeek, Eof} THEN pos ELSE pos - 1

(* The step is an iteration of the loop of walk_ws, walk_string,           *)
(* walk_digits or walk_integer that does not leave the loop.               *)
StaysInLoop ==
    /\ Walking
    /\ Top.pc = "loop"
    /\ stack' # <<>>
    /\ Len(stack') = Len(stack)
    /\ stack'[1].fn = Top.fn
    /\ stack'[1].pc = "loop"

(* An iteration of the loop of walk_elements or walk_members starts. *)
AtLoopHead == At("walk_elements", "value") \/ At("walk_members", "member")

(* The first step of a value that has a byte in the lookahead. *)
StartsValue ==
    \/ At("walk_object", "start")
    \/ At("walk_array", "start")
    \/ At("walk_string", "start")
    \/ At("walk_integer", "start") /\ IsByte(peeked)
    \/ At("walk_value", "start") /\ peeked \in {CHR_n, CHR_t, CHR_f}

(* C14 Termination: a call to repair on a source whose nesting the stack   *)
(* holds eventually returns Valid, Repaired or an error.  The read         *)
(* position never goes back; an iteration of the loop of walk_ws,          *)
(* walk_string, walk_digits or walk_integer that stays in the loop         *)
(* consumes an item; an iteration of the loop of walk_elements or          *)
(* walk_members starts with a byte in the lookahead, and the value that    *)
(* starts with it consumes it unless the walk is cut short first.          *)
C14_Termination ==
    /\ (mpc = "walk") ~> (Returned \/ result = "abort")
    /\ [][run' = run => Consumed' >= Consumed]_vars
    /\ [][StaysInLoop => Consumed' > Consumed]_vars
    /\ [](AtLoopHead => IsByte(peeked))
    /\ [][(StartsValue /\ ~Cut') => Consumed' > Consumed]_vars

====
